---------------------------- MODULE Spec2Model ----------------------------
(***************************************************************************)
(* Model of the upload handler of app.py: validation of the upload triple, *)
(* the ephemeral workspace, staging, the archive sanitizer, the staged     *)
(* links, the tool pipeline, the artifact check and the cleanup.           *)
(*                                                                         *)
(* Text (file names, archive member names) is a sequence of one-character  *)
(* strings, so that the string functions of the code (rsplit, lower,       *)
(* secure_filename, the path split, Path.suffix, glob) are computed and    *)
(* not assumed.  A path is a sequence of names from the filesystem root.   *)
(***************************************************************************)
EXTENDS Integers, Sequences, FiniteSets, TLC

(***************************************************************************)
(* Bounds of the model.                                                    *)
(***************************************************************************)
\* longest archive (number of members) a request uploads
MaxEntries == 2
\* number of POST requests handled one after the other
MaxRequests == 2

(***************************************************************************)
(* Text.                                                                   *)
(***************************************************************************)
UPPER == <<"A","B","C","D","E","F","G","H","I","J","K","L","M",
           "N","O","P","Q","R","S","T","U","V","W","X","Y","Z">>
LOWER == <<"a","b","c","d","e","f","g","h","i","j","k","l","m",
           "n","o","p","q","r","s","t","u","v","w","x","y","z">>
DIGITS == <<"0","1","2","3","4","5","6","7","8","9">>

Range(s) == { s[i] : i \in DOMAIN s }

\* str.lower() on one character
LowerChar(c) ==
    IF \E i \in DOMAIN UPPER : UPPER[i] = c
    THEN LOWER[CHOOSE i \in DOMAIN UPPER : UPPER[i] = c]
    ELSE c

\* str.lower()
Lower(s) == [ i \in DOMAIN s |-> LowerChar(s[i]) ]

\* str.rfind(c): the last index of c in s, 0 when c does not occur
\* (indices are 1-based here, Python's -1 is 0)
RFind(s, c) ==
    IF \E i \in DOMAIN s : s[i] = c
    THEN CHOOSE i \in DOMAIN s : s[i] = c /\ \A j \in (i + 1)..Len(s) : s[j] # c
    ELSE 0

\* str.find(c) from the left, 0 when c does not occur
Find(s, c) ==
    IF \E i \in DOMAIN s : s[i] = c
    THEN CHOOSE i \in DOMAIN s : s[i] = c /\ \A j \in 1..(i - 1) : s[j] # c
    ELSE 0

\* s.rsplit(".", 1)[1]: the text after the last "." (only used when "." in s)
RSplitLast(s, c) == SubSeq(s, RFind(s, c) + 1, Len(s))

\* s.split(c): the pieces between the occurrences of c (empty pieces kept)
RECURSIVE Split(_, _)
Split(s, c) ==
    IF Find(s, c) = 0 THEN << s >>
    ELSE << SubSeq(s, 1, Find(s, c) - 1) >>
         \o Split(SubSeq(s, Find(s, c) + 1, Len(s)), c)

\* s.replace(a, b) for single characters
Replace(s, a, b) == [ i \in DOMAIN s |-> IF s[i] = a THEN b ELSE s[i] ]

\* sep.join(parts)
RECURSIVE Join(_, _)
Join(parts, sep) ==
    IF parts = << >> THEN << >>
    ELSE IF Len(parts) = 1 THEN parts[1]
    ELSE parts[1] \o sep \o Join(Tail(parts), sep)

\* the non-empty pieces, as str.split() without argument keeps them
RECURSIVE DropEmpty(_)
DropEmpty(parts) ==
    IF parts = << >> THEN << >>
    ELSE IF Head(parts) = << >> THEN DropEmpty(Tail(parts))
    ELSE << Head(parts) >> \o DropEmpty(Tail(parts))

\* s.strip(chars)
RECURSIVE LStrip(_, _)
LStrip(s, chars) ==
    IF s # << >> /\ Head(s) \in chars THEN LStrip(Tail(s), chars) ELSE s

RECURSIVE RStrip(_, _)
RStrip(s, chars) ==
    IF s # << >> /\ s[Len(s)] \in chars
    THEN RStrip(SubSeq(s, 1, Len(s) - 1), chars) ELSE s

Strip(s, chars) == RStrip(LStrip(s, chars), chars)

\* s.endswith(t)
EndsWith(s, t) ==
    Len(s) >= Len(t) /\ SubSeq(s, Len(s) - Len(t) + 1, Len(s)) = t

\* p is a prefix of s
IsPrefix(p, s) == Len(p) <= Len(s) /\ SubSeq(s, 1, Len(p)) = p


(***************************************************************************)
(* Names and constants of app.py.                                          *)
(***************************************************************************)
ASSETS == <<
    <<"i","e","e","e","/","i","e","e","e","-","c","o","n","f","e","r","e","n","c","e",".","t","e","x">>,
    <<"i","e","e","e","/","I","E","E","E","t","r","a","n",".","c","l","s">>,
    <<"i","e","e","e","/","I","E","E","E","t","r","a","n",".","b","s","t">>,
    <<"i","e","e","e","/","i","e","e","e",".","c","s","l">>,
    <<"i","e","e","e","/","p","a","n","d","o","c","-","c","s","l","-","f","i","x",".","t","e","x">> >>

ALLOWED_MD == { <<"m","d">> }
ALLOWED_BIB == { <<"b","i","b">> }
ALLOWED_ZIP == { <<"z","i","p">> }

PAPER_FILES == <<"p","a","p","e","r","F","i","l","e","s">>
PAPER_MD == <<"p","a","p","e","r",".","m","d">>
LIBRARY_BIB == <<"l","i","b","r","a","r","y",".","b","i","b">>
FIGURES_ZIP == <<"f","i","g","u","r","e","s",".","z","i","p">>
OUTPUTS == <<"o","u","t","p","u","t","s">>
IEEE == <<"i","e","e","e">>
PAPER == <<"p","a","p","e","r">>
DOT_MD == <<".","m","d">>
DOT_BIB == <<".","b","i","b">>
\* the extensions of the stale byproducts _run_conversion deletes
STALE_EXTS == << <<"a","u","x">>, <<"b","b","l">>, <<"b","l","g">>,
                 <<"o","u","t">>, <<"l","o","g">>, <<"p","d","f">> >>

\* f"paper.{ext}"
PaperDot(ext) == PAPER \o <<".">> \o ext
PAPER_TEX == PaperDot(<<"t","e","x">>)
PAPER_PDF == PaperDot(<<"p","d","f">>)

\* the directory tempfile creates workspaces in
TMP == <<"t","m","p">>
\* the n-th of the names tempfile.TemporaryDirectory(prefix="ieee-convert-")
\* chooses from: the prefix and a suffix
WorkName(n) == <<"i","e","e","e","-","c","o","n","v","e","r","t","-">> \o << DIGITS[n + 1] >>

(***************************************************************************)
(* Pure functions of the code and of the libraries it calls.               *)
(***************************************************************************)
\* (a variant that tests how the name ends, without asking for the ".")
AllowedEnding(filename, exts) == \E e \in exts : EndsWith(Lower(filename), e)

\* _allowed(filename, exts)
Allowed(filename, exts) ==
    /\ "." \in Range(filename)
    /\ Lower(RSplitLast(filename, ".")) \in exts

\* the characters werkzeug's _filename_ascii_strip_re keeps: [A-Za-z0-9_.-]
FilenameChars == Range(UPPER) \cup Range(LOWER) \cup Range(DIGITS) \cup {"_", ".", "-"}

RECURSIVE KeepChars(_, _)
KeepChars(s, chars) ==
    IF s = << >> THEN << >>
    ELSE IF Head(s) \in chars THEN << Head(s) >> \o KeepChars(Tail(s), chars)
    ELSE KeepChars(Tail(s), chars)

\* werkzeug.utils.secure_filename on ASCII text: path separators become
\* blanks, blank-separated pieces are joined with "_", characters outside
\* [A-Za-z0-9_.-] are dropped, leading and trailing "." and "_" are stripped
SecureFilename(filename) ==
    Strip(KeepChars(Join(DropEmpty(Split(Replace(filename, "/", " "), " ")), <<"_">>),
                    FilenameChars),
          {".", "_"})

\* pathlib's Path.suffix of a name
Suffix(name) ==
    IF 1 < RFind(name, ".") /\ RFind(name, ".") < Len(name)
    THEN SubSeq(name, RFind(name, "."), Len(name))
    ELSE << >>

\* the parts pathlib keeps of a path text: "" and "." pieces are dropped
RECURSIVE DropParts(_, _)
DropParts(parts, bad) ==
    IF parts = << >> THEN << >>
    ELSE IF Head(parts) \in bad THEN DropParts(Tail(parts), bad)
    ELSE << Head(parts) >> \o DropParts(Tail(parts), bad)

PathParts(text) == DropParts(Split(text, "/"), { << >>, <<".">> })

\* base / text: an absolute text replaces the base
PathJoin(base, text) ==
    IF text # << >> /\ Head(text) = "/" THEN PathParts(text)
    ELSE base \o PathParts(text)

\* Path.resolve() where no component is a symbolic link: ".." removes the
\* component before it, and stays at the root
RECURSIVE Normalize(_, _)
Normalize(done, rest) ==
    IF rest = << >> THEN done
    ELSE IF Head(rest) = <<".", ".">>
         THEN Normalize(IF done = << >> THEN done
                        ELSE SubSeq(done, 1, Len(done) - 1), Tail(rest))
    ELSE Normalize(Append(done, Head(rest)), Tail(rest))

ResolvePath(p) == Normalize(<< >>, p)

\* member_path.relative_to(dest_resolved) does not raise
RelativeTo(p, base) == IsPrefix(base, p)

\* zipfile's _extract_member: the member's target below dest, its "", "."
\* and ".." pieces dropped
ZipTarget(dest, filename) ==
    dest \o DropParts(Split(filename, "/"), { << >>, <<".">>, <<".", ".">> })

\* ZipInfo.is_dir()
ZipIsDir(filename) == filename # << >> /\ filename[Len(filename)] = "/"

(***************************************************************************)
(* The filesystem: a function from paths to nodes.  A node is a directory, *)
(* a regular file with its content, or a symbolic link with its target.    *)
(***************************************************************************)
DIR == [kind |-> "dir", data |-> "", to |-> << >>]
FILE(d) == [kind |-> "file", data |-> d, to |-> << >>]
LINK(t) == [kind |-> "link", data |-> "", to |-> t]

Parent(p) == SubSeq(p, 1, Len(p) - 1)
Name(p) == p[Len(p)]

\* the prefixes of p, up to length n, that are symbolic links
LinkPrefixes(f, p, n) ==
    { i \in 1..n : SubSeq(p, 1, i) \in DOMAIN f /\ f[SubSeq(p, 1, i)].kind = "link" }

\* p with its first symbolic link among the first n components followed;
\* the links the handler creates point at entries that are no links
Follow(f, p, n) ==
    IF LinkPrefixes(f, p, n) = {} THEN p
    ELSE LET i == CHOOSE i \in LinkPrefixes(f, p, n) :
                      \A j \in LinkPrefixes(f, p, n) : i <= j
         IN  f[SubSeq(p, 1, i)].to \o SubSeq(p, i + 1, Len(p))

\* the node a path names, links followed (open, exists, is_dir)
Real(f, p) == Follow(f, p, Len(p))
\* the entry a path names, links followed in its directory only (unlink)
RealEntry(f, p) == Follow(f, p, Len(p) - 1)

\* Path.exists()
Exists(f, p) == Real(f, p) \in DOMAIN f
\* Path.is_dir()
IsDir(f, p) == Exists(f, p) /\ f[Real(f, p)].kind = "dir"
IsFile(f, p) == Exists(f, p) /\ f[Real(f, p)].kind = "file"

\* Path.iterdir(): the names directly inside directory d
Entries(f, d) == { Name(p) : p \in { q \in DOMAIN f : Len(q) = Len(d) + 1 /\ IsPrefix(d, q) } }

\* mkdir(parents=True, exist_ok=True) succeeds: no component below the
\* existing directory base is something other than a directory
MkdirsOk(f, base, p) ==
    \A i \in (Len(base) + 1)..Len(p) :
        Exists(f, SubSeq(p, 1, i)) => IsDir(f, SubSeq(p, 1, i))

\* the directories mkdir(parents=True, exist_ok=True) creates
Mkdirs(f, base, p) ==
    LET new == { Real(f, SubSeq(p, 1, i)) : i \in (Len(base) + 1)..Len(p) } \ DOMAIN f
    IN  [ q \in DOMAIN f \cup new |-> IF q \in new THEN DIR ELSE f[q] ]

\* open(p, "wb") succeeds: the directory exists and p is no directory
WriteOk(f, p) == IsDir(f, Parent(p)) /\ ~IsDir(f, p)

\* the file p written with content d
Write(f, p, d) ==
    [ q \in DOMAIN f \cup { Real(f, p) } |-> IF q = Real(f, p) THEN FILE(d) ELSE f[q] ]

\* the content read from file p
Read(f, p) == f[Real(f, p)].data

\* Path.unlink(missing_ok=True) of a file or a link
Unlink(f, p) == [ q \in DOMAIN f \ { RealEntry(f, p) } |-> f[q] ]

\* TemporaryDirectory cleanup: the directory and everything below it
RmTree(f, w) == [ q \in { x \in DOMAIN f : ~IsPrefix(w, x) } |-> f[q] ]

(***************************************************************************)
(* Exceptions and responses.                                               *)
(***************************************************************************)
NoText == << >>
NoExc == [type |-> "none", text |-> "", arg |-> NoText, stdout |-> NoText, stderr |-> NoText]
Raise(type, text, arg) ==
    [type |-> type, text |-> text, arg |-> arg, stdout |-> NoText, stderr |-> NoText]
\* subprocess.CalledProcessError of a tool, with its captured output
CalledProcessError(tool, so, se) ==
    [type |-> "CalledProcessError", text |-> "returned non-zero exit status",
     arg |-> tool, stdout |-> so, stderr |-> se]

\* the exception classes below OSError that the model raises
OS_ERRORS == {"OSError", "FileNotFoundError", "FileExistsError", "IsADirectoryError",
              "NotADirectoryError"}
\* except (OSError, subprocess.CalledProcessError, ValueError)
Caught(e) == e.type \in OS_ERRORS \cup {"CalledProcessError", "ValueError"}

NoResponse == [kind |-> "none", error |-> "", arg |-> NoText, log |-> NoText,
               body |-> "", mimetype |-> "", download_name |-> NoText]
\* render_template("index.html", error=..., log=...)
Page(error, arg, log) ==
    [kind |-> "page", error |-> error, arg |-> arg, log |-> log,
     body |-> "", mimetype |-> "", download_name |-> NoText]
\* send_file(io.BytesIO(pdf_bytes), mimetype=..., as_attachment=True, download_name=...)
SendFile(bytes, mimetype, name) ==
    [kind |-> "file", error |-> "", arg |-> NoText, log |-> NoText,
     body |-> bytes, mimetype |-> mimetype, download_name |-> name]
\* an exception that leaves index(): Flask answers with a server error
ServerError(e) ==
    [kind |-> "server_error", error |-> e.type, arg |-> NoText, log |-> NoText,
     body |-> "", mimetype |-> "", download_name |-> NoText]

\* no environment map
NoEnv == << >>
\* os.environ as the server was started: PATH, an inherited TEXINPUTS and
\* BSTINPUTS (the latter of two directories), and no BIBINPUTS
AMBIENT ==
    [ v \in {"PATH", "TEXINPUTS", "BSTINPUTS"} |->
        IF v = "PATH" THEN <<"/","b","i","n">>
        ELSE IF v = "TEXINPUTS" THEN <<"/","t">>
        ELSE <<"/","s",":","/","u">> ]

(***************************************************************************)
(* The requests the model sends.                                           *)
(***************************************************************************)
\* a field of request.files: absent, or a FileStorage with its name and bytes
\* (data: the bytes of a text upload; archive: what zipfile reads from the
\* bytes of an archive upload, a list of members or no zip archive at all)
Archive(members) == [valid |-> TRUE, members |-> members]
NotAZip == [valid |-> FALSE, members |-> << >>]
NoFile == [present |-> FALSE, filename |-> NoText, data |-> "", archive |-> NotAZip]
Upload(filename, data) ==
    [present |-> TRUE, filename |-> filename, data |-> data, archive |-> NotAZip]
ZipUpload(filename, archive) ==
    [present |-> TRUE, filename |-> filename, data |-> "ZIP", archive |-> archive]

\* the members an uploaded archive is built from: their names as zipfile
\* reads them, and their bytes
Members == {
    [filename |-> <<"f",".","p","n","g">>, data |-> "F1"],
    [filename |-> <<"d","/","g",".","p","n","g">>, data |-> "F2"],
    [filename |-> <<"d","/",".",".","/","h",".","p","n","g">>, data |-> "F3"],
    [filename |-> <<".",".","/","e","v","i","l",".","t","x","t">>, data |-> "EVIL"],
    [filename |-> <<"/","a","b","s",".","t","x","t">>, data |-> "ABS"],
    [filename |-> <<"p","a","p","e","r",".","m","d">>, data |-> "ZMD"],
    [filename |-> <<"l","i","b","r","a","r","y",".","b","i","b">>, data |-> "ZBIB"],
    [filename |-> <<"o","u","t","p","u","t","s","/","o",".","p","n","g">>, data |-> "F4"],
    [filename |-> <<"o","u","t","p","u","t","s">>, data |-> "F5"],
    [filename |-> <<"d">>, data |-> "F6"],
    [filename |-> <<".","b","i","b">>, data |-> "F7"] }

\* the archives of at most n different members, in every order
RECURSIVE MemberLists(_)
MemberLists(n) ==
    IF n = 0 THEN { << >> }
    ELSE MemberLists(n - 1) \cup
         { Append(l, m) : l \in { k \in MemberLists(n - 1) : Len(k) = n - 1 },
                          m \in Members }

Distinct(l) == \A i, j \in DOMAIN l : i # j => l[i] # l[j]

\* the archives uploaded: every list of members, and a file that is no zip
Archives == { Archive(l) : l \in { k \in MemberLists(MaxEntries) : Distinct(k) } } \cup { NotAZip }
PlainArchive == Archive(<< [filename |-> <<"f",".","p","n","g">>, data |-> "F1"] >>)

MdUploads == {
    NoFile,
    Upload(NoText, "MD"),
    Upload(<<"p","a","p","e","r",".","m","d">>, "MD"),
    Upload(<<"p","a","p","e","r",".","m","d">>, ""),
    Upload(<<"n",".","M","D">>, "MD"),
    Upload(<<"p",".","t","x","t">>, "MD"),
    Upload(<<"m","d">>, "MD") }

BibUploads == {
    NoFile,
    Upload(NoText, "BIB"),
    Upload(<<"l","i","b","r","a","r","y",".","b","i","b">>, "BIB"),
    Upload(<<"r","e","f","s",".","b","i","b">>, "BIB"),
    Upload(<<".","b","i","b">>, "BIB"),
    Upload(<<".",".","/","R",".","B","I","B">>, "BIB"),
    Upload(<<"r",".","t","x","t">>, "BIB") }

ZipNames == { <<"f","i","g","u","r","e","s",".","z","i","p">>, <<"F",".","Z","I","P">>,
              <<"f",".","t","a","r">>, NoText }

Request(method, md, bib, zip) ==
    [method |-> method, md_file |-> md, bib_file |-> bib, fig_zip |-> zip]

\* every combination of names with one plain archive, and every archive
\* with well-named uploads
Requests ==
    { Request("POST", md, bib, zip) :
        md \in MdUploads, bib \in BibUploads,
        zip \in { ZipUpload(n, PlainArchive) : n \in ZipNames } \cup { NoFile } }
    \cup
    { Request("POST", Upload(<<"p","a","p","e","r",".","m","d">>, "MD"), bib,
              ZipUpload(<<"f","i","g","u","r","e","s",".","z","i","p">>, a)) :
        bib \in { Upload(<<"l","i","b","r","a","r","y",".","b","i","b">>, "BIB"),
                  Upload(<<"r","e","f","s",".","b","i","b">>, "BIB") },
        a \in Archives }
    \cup { Request("GET", NoFile, NoFile, NoFile) }

\* the assets the trusted source (APP_ROOT) holds: all of them, or all but one
AppRoots == { Range(ASSETS) } \cup { Range(ASSETS) \ { a } : a \in Range(ASSETS) }

(***************************************************************************)
(* The state of the handler.                                               *)
(***************************************************************************)
VARIABLES
    pc,         \* where index() is: "idle", a handler step, or "done"
    reqNo,      \* the number of requests received so far
    request,    \* request.method and request.files of the current request
    appRoot,    \* the asset names that exist below APP_ROOT
    fs,         \* the filesystem below the temporary directory
    work,       \* the workspace of the current request, << >> before it exists
    bib_name,   \* the local bib_name
    links,      \* the local links (its order is never used: kept as a set)
    exc,        \* the exception being propagated, NoExc when there is none
    trace,      \* the pipeline steps started in this request, with their outcome
    response,   \* what index() returns, NoResponse until then
    environ,    \* os.environ, the environment of the server process
    env,        \* the local env of _run_conversion, NoEnv before it is built
    other       \* the locals of a second call of index() that is not running

vars == << pc, reqNo, request, appRoot, fs, work, bib_name, links, exc, trace, response,
           environ, env, other >>

\* the locals of a call of index()
Locals(p, r, w, b, l, e, t, a, v) ==
    [pc |-> p, request |-> r, work |-> w, bib_name |-> b, links |-> l, exc |-> e,
     trace |-> t, response |-> a, env |-> v]

\* no call in progress
NoCall ==
    Locals("idle", Request("GET", NoFile, NoFile, NoFile), << >>, NoText, {}, NoExc,
           << >>, NoResponse, NoEnv)

paper_dir == work \o << PAPER_FILES >>
out_dir == work \o << OUTPUTS >>
ieee_dir == work \o << IEEE >>
\* (a variant that looks for the artifact under the name of the .tex file)
PdfPathOfTex == work \o << OUTPUTS, PAPER_TEX >>
pdf_path == work \o << OUTPUTS, PAPER_PDF >>
tex_path == out_dir \o << PAPER_TEX >>
zip_path == work \o << FIGURES_ZIP >>
md_path == paper_dir \o << PAPER_MD >>

(***************************************************************************)
(* index(): the request arrives.                                           *)
(***************************************************************************)
Init ==
    /\ pc = "idle"
    /\ reqNo = 0
    /\ request = Request("GET", NoFile, NoFile, NoFile)
    /\ appRoot = Range(ASSETS)
    /\ fs = (<< TMP >> :> DIR)
    /\ work = << >>
    /\ bib_name = NoText
    /\ links = {}
    /\ exc = NoExc
    /\ trace = << >>
    /\ response = NoResponse
    /\ environ = AMBIENT
    /\ env = NoEnv
    /\ other = NoCall

Post ==
    /\ pc = "idle"
    /\ reqNo < MaxRequests
    /\ \E r \in Requests, a \in AppRoots :
        /\ request' = r
        /\ appRoot' = a
    /\ reqNo' = reqNo + 1
    /\ pc' = "validate"
    /\ work' = << >>
    /\ bib_name' = NoText
    /\ links' = {}
    /\ exc' = NoExc
    /\ trace' = << >>
    /\ response' = NoResponse
    /\ env' = NoEnv
    /\ UNCHANGED << fs, environ, other >>

\* "not md_file or not md_file.filename"
Missing(file) == ~file.present \/ file.filename = NoText

\* (a variant without the test for a missing figure archive)
ValidationErrorNoZipTest(r) ==
    IF Missing(r.md_file) THEN "Missing .md file."
    ELSE IF Missing(r.bib_file) THEN "Missing .bib file."
    ELSE IF ~Allowed(r.md_file.filename, ALLOWED_MD) THEN "Markdown file must be .md."
    ELSE IF ~Allowed(r.bib_file.filename, ALLOWED_BIB) THEN "Bibliography file must be .bib."
    ELSE IF ~Allowed(r.fig_zip.filename, ALLOWED_ZIP) THEN "Figures upload must be a .zip."
    ELSE ""

\* the error message of the validation chain, "" when the uploads pass
ValidationError(r) ==
    IF Missing(r.md_file) THEN "Missing .md file."
    ELSE IF Missing(r.bib_file) THEN "Missing .bib file."
    ELSE IF Missing(r.fig_zip) THEN "Missing figures .zip file."
    ELSE IF ~Allowed(r.md_file.filename, ALLOWED_MD) THEN "Markdown file must be .md."
    ELSE IF ~Allowed(r.bib_file.filename, ALLOWED_BIB) THEN "Bibliography file must be .bib."
    ELSE IF ~Allowed(r.fig_zip.filename, ALLOWED_ZIP) THEN "Figures upload must be a .zip."
    ELSE ""

Validate ==
    /\ pc = "validate"
    /\ IF request.method = "GET"
       THEN /\ response' = Page("", NoText, NoText)
            /\ pc' = "done"
       ELSE IF ValidationError(request) # ""
       THEN /\ response' = Page(ValidationError(request), NoText, NoText)
            /\ pc' = "done"
       ELSE /\ response' = response
            /\ pc' = "enter_with"
    /\ UNCHANGED << reqNo, request, appRoot, fs, work, bib_name, links, exc, trace, environ, env, other >>

(***************************************************************************)
(* The ephemeral workspace.                                                *)
(***************************************************************************)
\* (a variant that uses one fixed directory for every request)
SameDirectory(f) == << TMP, WorkName(1) >>

\* tempfile.TemporaryDirectory(prefix="ieee-convert-"): mkdtemp tries names
\* until it has made a directory that did not exist.  The names differ in
\* their suffix only: the model takes the first one that is free
TemporaryDirectory(f) ==
    << TMP, WorkName(CHOOSE n \in 1..(Len(DIGITS) - 1) :
                        /\ << TMP, WorkName(n) >> \notin DOMAIN f
                        /\ \A m \in 1..(n - 1) : << TMP, WorkName(m) >> \in DOMAIN f) >>

EnterWith ==
    /\ pc = "enter_with"
    /\ work' = TemporaryDirectory(fs)
    /\ fs' = Mkdirs(fs, << TMP >>, work' \o << PAPER_FILES >>)
    /\ pc' = "copy_assets"
    /\ UNCHANGED << reqNo, request, appRoot, bib_name, links, exc, trace, response, environ, env, other >>

\* (a variant that passes over an asset the trusted source does not hold)
RECURSIVE CopyAssetsPresent(_, _, _, _)
CopyAssetsPresent(f, root, dest, i) ==
    IF i > Len(ASSETS) THEN [fs |-> f, exc |-> NoExc]
    ELSE IF ASSETS[i] \notin root THEN CopyAssetsPresent(f, root, dest, i + 1)
    ELSE CopyAssetsPresent(Write(Mkdirs(f, dest, Parent(PathJoin(dest, ASSETS[i]))),
                                 PathJoin(dest, ASSETS[i]), "ASSET"),
                           root, dest, i + 1)

\* _copy_assets(dest) from asset i on: the filesystem it leaves and the
\* exception it raises
RECURSIVE CopyAssets(_, _, _, _)
CopyAssets(f, root, dest, i) ==
    IF i > Len(ASSETS) THEN [fs |-> f, exc |-> NoExc]
    ELSE IF ASSETS[i] \notin root
    THEN [fs |-> f, exc |-> Raise("FileNotFoundError", "Missing required asset: ", ASSETS[i])]
    ELSE CopyAssets(Write(Mkdirs(f, dest, Parent(PathJoin(dest, ASSETS[i]))),
                          PathJoin(dest, ASSETS[i]), "ASSET"),
                    root, dest, i + 1)

CopyAssetsStep ==
    /\ pc = "copy_assets"
    /\ fs' = CopyAssets(fs, appRoot, work, 1).fs
    /\ exc' = CopyAssets(fs, appRoot, work, 1).exc
    /\ pc' = IF exc' = NoExc THEN "save_md" ELSE "except"
    /\ UNCHANGED << reqNo, request, appRoot, work, bib_name, links, trace, response, environ, env, other >>

(***************************************************************************)
(* Staging the uploads.  FileStorage.save writes the upload, or fails with *)
(* an OSError of the environment (a full disk).                            *)
(***************************************************************************)
SaveMd ==
    /\ pc = "save_md"
    /\ \E failed \in BOOLEAN :
        IF failed \/ ~WriteOk(fs, md_path)
        THEN /\ exc' = Raise("OSError", "No space left on device", NoText)
             /\ fs' = fs
             /\ pc' = "except"
        ELSE /\ fs' = Write(fs, md_path, request.md_file.data)
             /\ exc' = exc
             /\ pc' = "save_bib"
    /\ UNCHANGED << reqNo, request, appRoot, work, bib_name, links, trace, response, environ, env, other >>

\* secure_filename(bib_file.filename) or "library.bib"
BibName(filename) ==
    IF SecureFilename(filename) # NoText THEN SecureFilename(filename) ELSE LIBRARY_BIB

\* the bibliography saved under bib_name and, when that is another name,
\* copied to library.bib
StageBibliography(f, dir, name, data) ==
    IF name # LIBRARY_BIB
    THEN Write(Write(f, dir \o << name >>, data),
               dir \o << LIBRARY_BIB >>, Read(Write(f, dir \o << name >>, data), dir \o << name >>))
    ELSE Write(f, dir \o << name >>, data)

SaveBib ==
    /\ pc = "save_bib"
    /\ bib_name' = BibName(request.bib_file.filename)
    /\ \E failed \in BOOLEAN :
        IF failed \/ ~WriteOk(fs, paper_dir \o << bib_name' >>)
        THEN /\ exc' = Raise("OSError", "No space left on device", NoText)
             /\ fs' = fs
             /\ pc' = "except"
        ELSE /\ fs' = StageBibliography(fs, paper_dir, bib_name', request.bib_file.data)
             /\ exc' = exc
             /\ pc' = "save_zip"
    /\ UNCHANGED << reqNo, request, appRoot, work, links, trace, response, environ, env, other >>

SaveZip ==
    /\ pc = "save_zip"
    /\ \E failed \in BOOLEAN :
        IF failed \/ ~WriteOk(fs, zip_path)
        THEN /\ exc' = Raise("OSError", "No space left on device", NoText)
             /\ fs' = fs
             /\ pc' = "except"
        ELSE /\ fs' = Write(fs, zip_path, request.fig_zip.data)
             /\ exc' = exc
             /\ pc' = "extract"
    /\ UNCHANGED << reqNo, request, appRoot, work, bib_name, links, trace, response, environ, env, other >>

(***************************************************************************)
(* The archive sanitizer.                                                  *)
(***************************************************************************)
\* the member resolves inside the destination
MemberSafe(member, dest) ==
    RelativeTo(ResolvePath(PathJoin(dest, member.filename)), ResolvePath(dest))

\* zf.extractall(dest): the members are extracted in the archive's order;
\* the result is the filesystem left and the exception raised
RECURSIVE ExtractAll(_, _, _)
ExtractAll(f, members, dest) ==
    IF members = << >> THEN [fs |-> f, exc |-> NoExc]
    ELSE
    LET m == Head(members)
        t == ZipTarget(dest, m.filename)
    IN  IF ~MkdirsOk(f, dest, Parent(t))
        THEN [fs |-> f, exc |-> Raise("NotADirectoryError", "Not a directory", NoText)]
        ELSE
        LET g == Mkdirs(f, dest, Parent(t))
        IN  IF ZipIsDir(m.filename)
            THEN IF IsDir(g, t) THEN ExtractAll(g, Tail(members), dest)
                 ELSE IF Exists(g, t)
                 THEN [fs |-> g, exc |-> Raise("FileExistsError", "File exists", NoText)]
                 ELSE ExtractAll(Mkdirs(g, dest, t), Tail(members), dest)
            ELSE IF ~WriteOk(g, t)
                 THEN [fs |-> g, exc |-> Raise("IsADirectoryError", "Is a directory", NoText)]
                 ELSE ExtractAll(Write(g, t, m.data), Tail(members), dest)

\* (a variant that checks each member just before it extracts it)
RECURSIVE CheckAndExtract(_, _, _)
CheckAndExtract(f, members, dest) ==
    IF members = << >> THEN [fs |-> f, exc |-> NoExc]
    ELSE IF ~MemberSafe(Head(members), dest)
    THEN [fs |-> f, exc |-> Raise("ValueError", "Zip file contains an unsafe path.", NoText)]
    ELSE IF ExtractAll(f, << Head(members) >>, dest).exc # NoExc
    THEN ExtractAll(f, << Head(members) >>, dest)
    ELSE CheckAndExtract(ExtractAll(f, << Head(members) >>, dest).fs, Tail(members), dest)

ExtractWhileChecking(f, archive, dest) ==
    IF ~archive.valid
    THEN [fs |-> f, exc |-> Raise("BadZipFile", "File is not a zip file", NoText)]
    ELSE CheckAndExtract(f, archive.members, dest)

\* _safe_extract_zip(zip_path, dest) on the uploaded archive
SafeExtractZip(f, archive, dest) ==
    IF ~archive.valid
    THEN [fs |-> f, exc |-> Raise("BadZipFile", "File is not a zip file", NoText)]
    ELSE IF \E i \in DOMAIN archive.members : ~MemberSafe(archive.members[i], dest)
    THEN [fs |-> f, exc |-> Raise("ValueError", "Zip file contains an unsafe path.", NoText)]
    ELSE ExtractAll(f, archive.members, dest)

Extract ==
    /\ pc = "extract"
    /\ fs' = SafeExtractZip(fs, request.fig_zip.archive, paper_dir).fs
    /\ exc' = SafeExtractZip(fs, request.fig_zip.archive, paper_dir).exc
    /\ pc' = IF exc' = NoExc THEN "link" ELSE "except"
    /\ UNCHANGED << reqNo, request, appRoot, work, bib_name, links, trace, response, environ, env, other >>

(***************************************************************************)
(* The staged links.                                                       *)
(***************************************************************************)
\* the entries of src_dir that _link_paper_assets links: those it skips
\* neither for their suffix nor for a name the workspace root already has.
\* No two entries share a name, so the order of iterdir() does not change
\* the set
LinkedNames(f, src_dir, work_dir) ==
    IF ~Exists(f, src_dir) THEN {}
    ELSE { n \in Entries(f, src_dir) :
             /\ Suffix(n) \notin { DOT_MD, DOT_BIB }
             /\ ~Exists(f, work_dir \o << n >>) }

\* _link_paper_assets(src_dir, work_dir): the links it returns
LinkPaperAssets(f, src_dir, work_dir) ==
    { work_dir \o << n >> : n \in LinkedNames(f, src_dir, work_dir) }

\* the filesystem with a link at each of these places to the entry of the
\* same name in src_dir
SymlinkAll(f, targets, src_dir) ==
    [ q \in DOMAIN f \cup targets |->
        IF q \in targets THEN LINK(src_dir \o << Name(q) >>) ELSE f[q] ]

\* the OSError of target.symlink_to(entry) when the environment refuses the
\* link (a full disk); the exception names the entry
SymlinkError(n) == Raise("OSError", "No space left on device", n)

\* links = _link_paper_assets(paper_dir, work).  When symlink_to raises, the
\* links made before it stay (iterdir() yields the entries in no fixed
\* order), links is never assigned, and control goes to the except clause:
\* the inner try has not been entered
Link ==
    /\ pc = "link"
    /\ \/ /\ links' = LinkPaperAssets(fs, paper_dir, work)
          /\ fs' = SymlinkAll(fs, links', paper_dir)
          /\ exc' = exc
          /\ pc' = "Setup"
       \/ \E n \in LinkedNames(fs, paper_dir, work) :
           \E made \in SUBSET (LinkPaperAssets(fs, paper_dir, work) \ { work \o << n >> }) :
              /\ links' = links
              /\ fs' = SymlinkAll(fs, made, paper_dir)
              /\ exc' = SymlinkError(n)
              /\ pc' = "except"
    /\ UNCHANGED << reqNo, request, appRoot, work, bib_name, trace, response, environ, env, other >>

(***************************************************************************)
(* The pipeline runner, _run_conversion.  A tool is an opaque process: it  *)
(* exits zero or not, and on exit zero it has written its files or (a tool *)
(* misbehaving silently) it has not.                                       *)
(***************************************************************************)
PIPELINE == << "Setup", "Convert", "Fix", "Clean", "StageBib",
               "Compile1", "Bibtex", "Compile2", "Compile3" >>
\* the tool invocations of the pipeline, in the order of the code
INVOCATIONS == << "Convert", "Compile1", "Bibtex", "Compile2", "Compile3" >>

IndexOf(seq, x) == CHOOSE i \in DOMAIN seq : seq[i] = x

\* the statement _run_conversion executes after a step that raised nothing
StepAfter(step) ==
    IF IndexOf(PIPELINE, step) = Len(PIPELINE) THEN "finally"
    ELSE PIPELINE[IndexOf(PIPELINE, step) + 1]

\* (a variant that goes on with the next step after a failure, as
\* subprocess.run without check=True would)
AfterRaiseContinue(step) == StepAfter(step)

\* where control goes when a statement of _run_conversion raises: out of
\* the function, to the finally clause of index()
AfterRaise(step) == "finally"

PANDOC == <<"p","a","n","d","o","c">>
PDFLATEX == <<"p","d","f","l","a","t","e","x">>
BIBTEX == <<"b","i","b","t","e","x">>

\* what an invocation prints: a line that names the invocation
ToolText(c, step) == << c, DIGITS[IndexOf(INVOCATIONS, step) + 1], "\n" >>

\* the outcomes of an invocation: exit status, files written, captured output
ToolOutcomes(step) ==
    { [ok |-> TRUE, written |-> w, stdout |-> ToolText("o", step), stderr |-> NoText] :
        w \in IF step = "Bibtex" THEN {TRUE} ELSE BOOLEAN }
    \cup
    { [ok |-> FALSE, written |-> FALSE, stdout |-> so, stderr |-> se] :
        so \in { NoText, ToolText("o", step) }, se \in { NoText, ToolText("e", step) } }

RECURSIVE WriteAll(_, _)
WriteAll(f, files) ==
    IF files = << >> THEN f
    ELSE WriteAll(Write(f, Head(files)[1], Head(files)[2]), Tail(files))

\* a step of the pipeline as it ran: whether it raised nothing, whether the
\* tool wrote its files, what the tool printed, and the environment it was
\* given (none for the steps that run no tool)
Entry(step, ok, written, so, se) ==
    [step |-> step, ok |-> ok, written |-> written, stdout |-> so, stderr |-> se,
     env |-> NoEnv]

\* _run(cmd, cwd, env): subprocess.run(..., check=True, capture_output=True)
\* raises CalledProcessError with the captured output on a non-zero exit
\* and returns nothing otherwise
Run(step, tool, files) ==
    /\ pc = step
    /\ \E o \in ToolOutcomes(step) :
        /\ trace' = Append(trace, [Entry(step, o.ok, o.written, o.stdout, o.stderr)
                                      EXCEPT !.env = env])
        /\ IF o.ok
           THEN /\ fs' = IF o.written THEN WriteAll(fs, files) ELSE fs
                /\ exc' = exc
                /\ pc' = StepAfter(step)
           ELSE /\ fs' = fs
                /\ exc' = CalledProcessError(tool, o.stdout, o.stderr)
                /\ pc' = AfterRaise(step)
    /\ UNCHANGED << reqNo, request, appRoot, work, bib_name, links, response, environ, env, other >>

\* str(path) of an absolute path
RECURSIVE PathText(_)
PathText(p) == IF p = << >> THEN << >> ELSE << "/" >> \o Head(p) \o PathText(Tail(p))

\* env.get(k, "")
Getenv(e, k) == IF k \in DOMAIN e THEN e[k] ELSE NoText

\* env[k] = v
SetEnv(e, k, v) == [ x \in DOMAIN e \cup { k } |-> IF x = k THEN v ELSE e[x] ]

\* (a variant that puts the inherited value before the directories)
SearchPathInheritedFirst(dirs, inherited) ==
    Join(<< inherited >> \o [ i \in DOMAIN dirs |-> PathText(dirs[i]) ], << ":" >>) \o << ":" >>

\* f"{dir}:...:{inherited}:": the directories, the inherited value, and an
\* empty last piece
SearchPath(dirs, inherited) ==
    Join([ i \in DOMAIN dirs |-> PathText(dirs[i]) ] \o << inherited >>, << ":" >>) \o << ":" >>

\* env = os.environ.copy() with the three search-path variables set; each
\* assignment reads the inherited value of its own variable
ConversionEnv(e, ieee, paper, out) ==
    LET e1 == SetEnv(e, "TEXINPUTS", SearchPath(<< ieee >>, Getenv(e, "TEXINPUTS")))
        e2 == SetEnv(e1, "BIBINPUTS", SearchPath(<< paper, out >>, Getenv(e1, "BIBINPUTS")))
    IN  SetEnv(e2, "BSTINPUTS", SearchPath(<< ieee, paper, out >>, Getenv(e2, "BSTINPUTS")))

\* out_dir.mkdir(parents=True, exist_ok=True) and the environment
Setup ==
    /\ pc = "Setup"
    /\ IF MkdirsOk(fs, work, out_dir)
       THEN /\ fs' = Mkdirs(fs, work, out_dir)
            /\ env' = ConversionEnv(environ, ieee_dir, paper_dir, out_dir)
            /\ exc' = exc
            /\ pc' = StepAfter("Setup")
       ELSE /\ fs' = fs
            /\ env' = env
            /\ exc' = Raise("FileExistsError", "File exists", NoText)
            /\ pc' = AfterRaise("Setup")
    /\ UNCHANGED << reqNo, request, appRoot, work, bib_name, links, trace, response, environ, other >>

\* pandoc paperFiles/paper.md --template ... -o outputs/paper.tex
Convert == Run("Convert", PANDOC, << << tex_path, "TEX_CITEP" >> >>)

\* text.replace(r"\citep", r"\cite")
FixCitations(text) == IF text = "TEX_CITEP" THEN "TEX_CITE" ELSE text

Fix ==
    /\ pc = "Fix"
    /\ IF IsFile(fs, tex_path)
       THEN /\ fs' = Write(fs, tex_path, FixCitations(Read(fs, tex_path)))
            /\ exc' = exc
            /\ trace' = Append(trace, Entry("Fix", TRUE, TRUE, NoText, NoText))
            /\ pc' = StepAfter("Fix")
       ELSE /\ fs' = fs
            /\ exc' = Raise("FileNotFoundError", "No such file or directory", NoText)
            /\ trace' = Append(trace, Entry("Fix", FALSE, FALSE, NoText, NoText))
            /\ pc' = AfterRaise("Fix")
    /\ UNCHANGED << reqNo, request, appRoot, work, bib_name, links, response, environ, env, other >>

\* (out_dir / f"paper.{ext}").unlink(missing_ok=True) for the extensions
\* from i on; unlink raises on a directory
RECURSIVE UnlinkStale(_, _, _)
UnlinkStale(f, dir, i) ==
    IF i > Len(STALE_EXTS) THEN [fs |-> f, exc |-> NoExc]
    ELSE IF IsDir(f, dir \o << PaperDot(STALE_EXTS[i]) >>)
    THEN [fs |-> f, exc |-> Raise("IsADirectoryError", "Is a directory", NoText)]
    ELSE UnlinkStale(Unlink(f, dir \o << PaperDot(STALE_EXTS[i]) >>), dir, i + 1)

Clean ==
    /\ pc = "Clean"
    /\ fs' = UnlinkStale(fs, out_dir, 1).fs
    /\ exc' = UnlinkStale(fs, out_dir, 1).exc
    /\ trace' = Append(trace, Entry("Clean", exc' = NoExc, exc' = NoExc, NoText, NoText))
    /\ pc' = IF exc' = NoExc THEN StepAfter("Clean") ELSE AfterRaise("Clean")
    /\ UNCHANGED << reqNo, request, appRoot, work, bib_name, links, response, environ, env, other >>

\* paper_dir.glob("*.bib"): the entries whose name ends in ".bib"
GlobBib(f, dir) == { n \in Entries(f, dir) : EndsWith(n, DOT_BIB) }

\* shutil.copy(bib, out_dir / bib.name) for each of these names
CopyAll(f, names, from, to) ==
    [ q \in DOMAIN f \cup { Real(f, to \o << n >>) : n \in names } |->
        IF \E n \in names : q = Real(f, to \o << n >>)
        THEN FILE(Read(f, from \o << CHOOSE n \in names : q = Real(f, to \o << n >>) >>))
        ELSE f[q] ]

\* the names glob yields that shutil.copy can copy: a regular file, and no
\* directory of that name in out_dir
Copyable(f, from, to) ==
    { n \in GlobBib(f, from) : IsFile(f, from \o << n >>) /\ WriteOk(f, to \o << n >>) }

\* glob yields the names in no fixed order: when one of them cannot be
\* copied, any of the others may have been copied before it
StageBib ==
    /\ pc = "StageBib"
    /\ IF Copyable(fs, paper_dir, out_dir) = GlobBib(fs, paper_dir)
       THEN /\ fs' = CopyAll(fs, GlobBib(fs, paper_dir), paper_dir, out_dir)
            /\ exc' = exc
            /\ trace' = Append(trace, Entry("StageBib", TRUE, TRUE, NoText, NoText))
            /\ pc' = StepAfter("StageBib")
       ELSE /\ \E done \in SUBSET Copyable(fs, paper_dir, out_dir) :
                fs' = CopyAll(fs, done, paper_dir, out_dir)
            /\ exc' = Raise("IsADirectoryError", "Is a directory", NoText)
            /\ trace' = Append(trace, Entry("StageBib", FALSE, FALSE, NoText, NoText))
            /\ pc' = AfterRaise("StageBib")
    /\ UNCHANGED << reqNo, request, appRoot, work, bib_name, links, response, environ, env, other >>

\* the files a pdflatex pass leaves in the output directory
PdflatexFiles(dir, pdf) ==
    << << dir \o << PaperDot(<<"a","u","x">>) >>, "AUX" >>,
       << dir \o << PaperDot(<<"l","o","g">>) >>, "LOG" >>,
       << dir \o << PAPER_PDF >>, pdf >> >>

Compile1 == Run("Compile1", PDFLATEX, PdflatexFiles(out_dir, "PDF1"))

Bibtex ==
    Run("Bibtex", BIBTEX, << << out_dir \o << PaperDot(<<"b","b","l">>) >>, "BBL" >>,
                             << out_dir \o << PaperDot(<<"b","l","g">>) >>, "BLG" >> >>)

Compile2 == Run("Compile2", PDFLATEX, PdflatexFiles(out_dir, "PDF2"))

Compile3 == Run("Compile3", PDFLATEX, PdflatexFiles(out_dir, "PDF3"))

(***************************************************************************)
(* The result extractor and the cleanup.                                   *)
(***************************************************************************)
\* (a variant that removes the links only when the pipeline raised nothing)
UnlinkLinksOnSuccess(f, ls) == IF exc = NoExc THEN [ q \in DOMAIN f \ ls |-> f[q] ] ELSE f

\* for link in links: link.unlink(missing_ok=True)
UnlinkLinks(f, ls) == [ q \in DOMAIN f \ ls |-> f[q] ]

\* the finally clause: it runs when _run_conversion returned and when it
\* raised; a raised exception goes on to the except clause after it
Finally ==
    /\ pc = "finally"
    /\ fs' = UnlinkLinks(fs, links)
    /\ pc' = IF exc # NoExc THEN "except" ELSE "check_pdf"
    /\ UNCHANGED << reqNo, request, appRoot, work, bib_name, links, exc, trace, response, environ, env, other >>

\* if not pdf_path.exists(): raise FileNotFoundError("PDF was not generated.")
CheckPdf ==
    /\ pc = "check_pdf"
    /\ IF Exists(fs, pdf_path)
       THEN /\ exc' = exc
            /\ pc' = "send"
       ELSE /\ exc' = Raise("FileNotFoundError", "PDF was not generated.", NoText)
            /\ pc' = "except"
    /\ UNCHANGED << reqNo, request, appRoot, fs, work, bib_name, links, trace, response, environ, env, other >>

\* pdf_path.read_bytes() and send_file(...)
Send ==
    /\ pc = "send"
    /\ IF IsFile(fs, pdf_path)
       THEN /\ response' = SendFile(Read(fs, pdf_path), "application/pdf", PAPER_PDF)
            /\ exc' = exc
            /\ pc' = "exit_with"
       ELSE /\ response' = response
            /\ exc' = IF Exists(fs, pdf_path)
                      THEN Raise("IsADirectoryError", "Is a directory", NoText)
                      ELSE Raise("FileNotFoundError", "No such file or directory", NoText)
            /\ pc' = "except"
    /\ UNCHANGED << reqNo, request, appRoot, fs, work, bib_name, links, trace, environ, env, other >>

WHITESPACE == { " ", "\n", "\t", "\r" }

\* (a variant that reports the output of every invocation of the run)
RECURSIVE Captured(_)
Captured(t) ==
    IF t = << >> THEN NoText ELSE Head(t).stdout \o Head(t).stderr \o Captured(Tail(t))

ErrorLogOfRun(e) ==
    Strip(IF e.type = "CalledProcessError" THEN Captured(trace) ELSE NoText, WHITESPACE)

\* log = (exc.stdout or "") + ("\n" + exc.stderr if exc.stderr else ""),
\* empty unless the exception is a CalledProcessError; log.strip()
ErrorLog(e) ==
    Strip(IF e.type = "CalledProcessError"
          THEN e.stdout \o (IF e.stderr # NoText THEN << "\n" >> \o e.stderr ELSE NoText)
          ELSE NoText,
          WHITESPACE)

\* the except clause renders the error; any other exception leaves index()
Except ==
    /\ pc = "except"
    /\ response' = IF Caught(exc) THEN Page(exc.text, exc.arg, ErrorLog(exc))
                   ELSE ServerError(exc)
    /\ pc' = "exit_with"
    /\ UNCHANGED << reqNo, request, appRoot, fs, work, bib_name, links, exc, trace, environ, env, other >>

\* (a variant that removes the workspace only after a successful request)
CleanupOnSuccess(f, w) == IF response.kind = "file" THEN RmTree(f, w) ELSE f

\* leaving "with tempfile.TemporaryDirectory(...)": the workspace is removed
Cleanup(f, w) == RmTree(f, w)

ExitWith ==
    /\ pc = "exit_with"
    /\ fs' = Cleanup(fs, work)
    /\ pc' = "done"
    /\ UNCHANGED << reqNo, request, appRoot, work, bib_name, links, exc, trace, response, environ, env, other >>

\* index() returns: the response goes to the client and the locals of the
\* call are gone
Return ==
    /\ pc = "done"
    /\ pc' = "idle"
    /\ request' = Request("GET", NoFile, NoFile, NoFile)
    /\ appRoot' = Range(ASSETS)
    /\ work' = << >>
    /\ bib_name' = NoText
    /\ links' = {}
    /\ exc' = NoExc
    /\ trace' = << >>
    /\ response' = NoResponse
    /\ env' = NoEnv
    /\ UNCHANGED << reqNo, fs, environ, other >>

Next ==
    \/ Post
    \/ Validate
    \/ EnterWith
    \/ CopyAssetsStep
    \/ SaveMd
    \/ SaveBib
    \/ SaveZip
    \/ Extract
    \/ Link
    \/ Setup
    \/ Convert
    \/ Fix
    \/ Clean
    \/ StageBib
    \/ Compile1
    \/ Bibtex
    \/ Compile2
    \/ Compile3
    \/ Finally
    \/ CheckPdf
    \/ Send
    \/ Except
    \/ ExitWith
    \/ Return

Spec == Init /\ [][Next]_vars

(***************************************************************************)
(* Two requests handled concurrently.  The server runs index() in a thread *)
(* or process of its own for each request: a second call has its own       *)
(* locals, and shares the filesystem and the trusted source with the       *)
(* first.  One call runs at a time in the model, and the calls may change  *)
(* places between any two steps.  Each call handles one request.           *)
(***************************************************************************)
\* the uploads of the concurrent requests: the same file names in each, with
\* an archive that is extracted and linked or one that is rejected
ConcurrentRequests ==
    { Request("POST", Upload(PAPER_MD, "MD"), Upload(<<"r","e","f","s",".","b","i","b">>, "BIB"),
              ZipUpload(FIGURES_ZIP, a)) :
        a \in { PlainArchive,
                Archive(<< [filename |-> <<".",".","/","e","v","i","l",".","t","x","t">>,
                            data |-> "EVIL"] >>) } }

PostConcurrent ==
    /\ pc = "idle"
    /\ reqNo < MaxRequests
    /\ \E r \in ConcurrentRequests : request' = r
    /\ appRoot' = Range(ASSETS)
    /\ reqNo' = reqNo + 1
    /\ pc' = "validate"
    /\ work' = << >>
    /\ bib_name' = NoText
    /\ links' = {}
    /\ exc' = NoExc
    /\ trace' = << >>
    /\ response' = NoResponse
    /\ env' = NoEnv
    /\ UNCHANGED << fs, environ, other >>

\* the scheduler lets the other call run
Switch ==
    /\ other' = Locals(pc, request, work, bib_name, links, exc, trace, response, env)
    /\ pc' = other.pc
    /\ request' = other.request
    /\ work' = other.work
    /\ bib_name' = other.bib_name
    /\ links' = other.links
    /\ exc' = other.exc
    /\ trace' = other.trace
    /\ response' = other.response
    /\ env' = other.env
    /\ UNCHANGED << reqNo, appRoot, fs, environ >>

NextConcurrent ==
    \/ PostConcurrent
    \/ Validate
    \/ EnterWith
    \/ CopyAssetsStep
    \/ SaveMd
    \/ SaveBib
    \/ SaveZip
    \/ Extract
    \/ Link
    \/ Setup
    \/ Convert
    \/ Fix
    \/ Clean
    \/ StageBib
    \/ Compile1
    \/ Bibtex
    \/ Compile2
    \/ Compile3
    \/ Finally
    \/ CheckPdf
    \/ Send
    \/ Except
    \/ ExitWith
    \/ Switch

SpecConcurrent == Init /\ [][NextConcurrent]_vars

(***************************************************************************)
(* Properties.                                                             *)
(***************************************************************************)
\* the paths of the filesystem inside directory d, d itself included
Below(f, d) == { p \in DOMAIN f : IsPrefix(d, p) }

\* C1: once a request that passed validation has completed, whatever the
\* outcome of staging, extraction, the pipeline and the artifact check, the
\* workspace created for it no longer exists.
C1_WorkspaceGone ==
    (pc = "done" /\ work # << >>) => Below(fs, work) = {}

\* a request completed after an exception left index() uncaught
C1_Witness ==
    /\ pc = "done"
    /\ work # << >>
    /\ response.kind = "server_error"

\* the archive is a zip archive with a member that resolves outside dest
HasUnsafeMember(archive, dest) ==
    /\ archive.valid
    /\ \E i \in DOMAIN archive.members : ~MemberSafe(archive.members[i], dest)

UnsafePath == Raise("ValueError", "Zip file contains an unsafe path.", NoText)

\* the bytes of the members of the archives
MemberData == { m.data : m \in Members }

\* C2: an archive with a member that resolves outside the destination, at
\* any position, makes _safe_extract_zip raise the unsafe-path error with
\* the filesystem as it was: no member is written anywhere, no step of the
\* pipeline runs, and the response reports the unsafe path.
C2_UnsafeArchiveRejected ==
    /\ [][ (pc = "extract" /\ HasUnsafeMember(request.fig_zip.archive, paper_dir))
            => (fs' = fs /\ exc' = UnsafePath /\ pc' = "except") ]_vars
    /\ [](HasUnsafeMember(request.fig_zip.archive, paper_dir)
            => /\ trace = << >>
               /\ \A p \in DOMAIN fs : fs[p].data \notin MemberData)
    /\ []((pc \in {"exit_with", "done"} /\ exc = UnsafePath)
            => response = Page("Zip file contains an unsafe path.", NoText, NoText))

\* the archive's second member is the unsafe one, and the error is raised
C2_Witness ==
    /\ pc = "except"
    /\ exc = UnsafePath
    /\ Len(request.fig_zip.archive.members) = 2
    /\ MemberSafe(request.fig_zip.archive.members[1], paper_dir)
    /\ ~MemberSafe(request.fig_zip.archive.members[2], paper_dir)

\* the order of the steps the specification gives
ORDER == << "Convert", "Fix", "Clean", "StageBib",
            "Compile1", "Bibtex", "Compile2", "Compile3" >>

\* C3: the steps start in the fixed order, each at most once, a step only
\* after every earlier step succeeded; after a step that failed nothing
\* more is started.
C3_FixedOrder ==
    /\ Len(trace) <= Len(ORDER)
    /\ \A i \in DOMAIN trace :
        /\ trace[i].step = ORDER[i]
        /\ i < Len(trace) => trace[i].ok
    /\ pc \in Range(ORDER) =>
        /\ \A i \in DOMAIN trace : trace[i].ok
        /\ pc = ORDER[Len(trace) + 1]

\* a request completed whose bibtex invocation, the sixth step, failed
C3_Witness ==
    /\ pc = "done"
    /\ Len(trace) = 6
    /\ ~trace[6].ok

\* the tool invocations of this request that exited non-zero
FailedInvocations ==
    { i \in DOMAIN trace : trace[i].step \in Range(INVOCATIONS) /\ ~trace[i].ok }

\* a text without its whitespace
Visible(t) == SelectSeq(t, LAMBDA c : c \notin WHITESPACE)

\* C4: when a tool invocation exits non-zero the response is the error page
\* and not the artifact, and its log is the captured stdout and stderr of
\* that invocation and of no other.
C4_ToolFailureReported ==
    \A i \in FailedInvocations :
        pc \in {"exit_with", "done"} =>
            /\ response.kind = "page"
            /\ response.error = "returned non-zero exit status"
            /\ response.body = ""
            /\ Visible(response.log) = Visible(trace[i].stdout) \o Visible(trace[i].stderr)

\* an invocation failed with output on both streams while an earlier
\* compile pass has left paper.pdf in the output directory
C4_Witness ==
    /\ pc = "exit_with"
    /\ FailedInvocations # {}
    /\ \A i \in FailedInvocations : trace[i].stdout # NoText /\ trace[i].stderr # NoText
    /\ IsFile(fs, work \o << OUTPUTS, PAPER_PDF >>)

\* every step of the pipeline ran and raised nothing
PipelinePassed == Len(trace) = Len(ORDER) /\ \A i \in DOMAIN trace : trace[i].ok

\* C5: for a well-formed upload whose archive members all resolve inside
\* the destination, when all five invocations exit zero and the final
\* compile pass has written the artifact, the response is that artifact
\* named paper.pdf with type application/pdf, whatever names the archive has.
C5_ArtifactReturned ==
    ( /\ pc \in {"exit_with", "done"}
      /\ request.fig_zip.archive.valid
      /\ \A i \in DOMAIN request.fig_zip.archive.members :
            MemberSafe(request.fig_zip.archive.members[i], paper_dir)
      /\ PipelinePassed
      /\ trace[Len(ORDER)].written )
    => response = SendFile("PDF3", "application/pdf", PAPER_PDF)

\* symlink_to raised in _link_paper_assets: the inner try was never entered
\* and the pipeline runner never ran
LinkFailed == exc.type = "OSError" /\ exc.arg # NoText

\* C6: after the pipeline runner ended, by returning or by raising, no
\* staged link exists: not at the artifact check, not at the read, not in
\* the error handling, not later.  (When the creation of a link fails the
\* runner never starts, and the links made so far go with the workspace.)
C6_LinksRemoved ==
    (pc \in {"check_pdf", "send", "except", "exit_with", "done"} /\ ~LinkFailed)
        => \A p \in DOMAIN fs : fs[p].kind # "link"

\* links were staged, a tool failed, and the error is being handled
C6_Witness ==
    /\ pc = "except"
    /\ links # {}
    /\ exc.type = "CalledProcessError"

\* the upload is absent or has no filename
Absent(file) == ~file.present \/ file.filename = NoText

\* C7: with exactly one of the three uploads missing, the error names that
\* upload: "Missing .md file.", "Missing .bib file.", "Missing figures .zip file.".
C7_MissingFileNamed ==
    (pc = "done" /\ request.method = "POST") =>
        /\ (Absent(request.md_file) /\ ~Absent(request.bib_file) /\ ~Absent(request.fig_zip))
            => response = Page("Missing .md file.", NoText, NoText)
        /\ (~Absent(request.md_file) /\ Absent(request.bib_file) /\ ~Absent(request.fig_zip))
            => response = Page("Missing .bib file.", NoText, NoText)
        /\ (~Absent(request.md_file) /\ ~Absent(request.bib_file) /\ Absent(request.fig_zip))
            => response = Page("Missing figures .zip file.", NoText, NoText)

\* a request without the figure archive, the other two uploads present
C7_Witness ==
    /\ pc = "done"
    /\ request.method = "POST"
    /\ ~Absent(request.md_file) /\ ~Absent(request.bib_file) /\ Absent(request.fig_zip)

\* the upload is present under a name "<anything>.<ext>", ext in any case
WellNamed(file, ext) ==
    /\ ~Absent(file)
    /\ \E i \in DOMAIN file.filename :
        /\ file.filename[i] = "."
        /\ \A j \in (i + 1)..Len(file.filename) : file.filename[j] # "."
        /\ Lower(SubSeq(file.filename, i + 1, Len(file.filename))) = ext

ValidTriple(r) ==
    /\ WellNamed(r.md_file, <<"m","d">>)
    /\ WellNamed(r.bib_file, <<"b","i","b">>)
    /\ WellNamed(r.fig_zip, <<"z","i","p">>)

VALIDATION_MESSAGES ==
    { "Missing .md file.", "Missing .bib file.", "Missing figures .zip file.",
      "Markdown file must be .md.", "Bibliography file must be .bib.",
      "Figures upload must be a .zip." }

\* the handler is past validation: in the workspace, staging or the pipeline
Started == work # << >> \/ trace # << >> \/ pc \notin {"idle", "validate", "done"}

\* C8 as stated: a workspace exists and staging starts only for a triple
\* of well-named uploads that are all non-empty.
C8_OnlyNonEmptyUploads ==
    Started => /\ ValidTriple(request)
               /\ request.md_file.data # ""
               /\ request.bib_file.data # ""
               /\ request.fig_zip.data # ""

\* C8, amended: a workspace exists and staging starts only for a triple of
\* uploads that are present with a non-empty filename of extension md, bib
\* and zip (in any case); every other POST request ends at once with a
\* validation error, without a workspace and without a pipeline step.
C8_OnlyWellNamedUploads ==
    \/ ValidTriple(request)
    \/ /\ ~Started
       /\ (request.method = "POST" /\ pc # "validate")
            => /\ pc = "done"
               /\ response.kind = "page"
               /\ response.error \in VALIDATION_MESSAGES
               /\ Below(fs, << TMP >>) = { << TMP >> }

\* all three uploads are there, one of them under a wrong name, and the
\* request has ended
C8_Witness ==
    /\ pc = "done"
    /\ request.method = "POST"
    /\ ~Absent(request.md_file) /\ ~Absent(request.bib_file) /\ ~Absent(request.fig_zip)
    /\ ~ValidTriple(request)

\* C9: when the sanitized name of the bibliography is not library.bib, then
\* as the pipeline runner starts both names exist in the manuscript
\* directory and hold the uploaded bibliography, for every archive that
\* passes the sanitizer.
C9_BibliographyUnderBothNames ==
    (pc = "Setup" /\ bib_name # LIBRARY_BIB) =>
        /\ IsFile(fs, work \o << PAPER_FILES, bib_name >>)
        /\ IsFile(fs, work \o << PAPER_FILES, LIBRARY_BIB >>)
        /\ Read(fs, work \o << PAPER_FILES, bib_name >>) = request.bib_file.data
        /\ Read(fs, work \o << PAPER_FILES, LIBRARY_BIB >>) = request.bib_file.data

\* C10: when every invocation exited zero and outputs/paper.pdf does not
\* exist, the response is the error "PDF was not generated." without a
\* diagnostic log (a tool failure has another message), and no artifact.
C10_ArtifactMissing ==
    (pc = "exit_with" /\ PipelinePassed /\ ~Exists(fs, work \o << OUTPUTS, PAPER_PDF >>))
        => /\ response = Page("PDF was not generated.", NoText, NoText)
           /\ exc = Raise("FileNotFoundError", "PDF was not generated.", NoText)

\* no compile pass wrote the artifact, and every invocation exited zero
C10_Witness ==
    /\ pc = "exit_with"
    /\ PipelinePassed
    /\ \A i \in DOMAIN trace : trace[i].step \in {"Compile1", "Compile2", "Compile3"}
                                  => ~trace[i].written

\* C11: every error raised while a validated request is handled (a missing
\* asset, a failed save, an archive that is no zip, an unsafe path, a failed
\* link, a tool failure, a missing artifact) ends as the rendered page with
\* the error's message; none leaves the handler unreported.
C11_ErrorsSurfaced ==
    (pc \in {"exit_with", "done"} /\ exc # NoExc)
        => /\ response.kind = "page"
           /\ response.error = exc.text
           /\ response.error # ""

\* every member of the archive resolves inside dest
AllMembersSafe(archive, dest) ==
    /\ archive.valid
    /\ \A i \in DOMAIN archive.members : MemberSafe(archive.members[i], dest)

\* the place the sanitizer computes for a member: (dest / filename).resolve()
MemberPath(member, dest) == ResolvePath(PathJoin(dest, member.filename))

\* C12: for an archive whose members all resolve inside the destination,
\* _safe_extract_zip raises nothing, and afterwards every member is a file
\* at its path below the destination, with the member's bytes.
C12_EveryEntryExtracted ==
    [][ (pc = "extract" /\ AllMembersSafe(request.fig_zip.archive, paper_dir))
         => /\ pc' = "link"
            /\ \A i \in DOMAIN request.fig_zip.archive.members :
                 /\ IsFile(fs', MemberPath(request.fig_zip.archive.members[i], paper_dir))
                 /\ Read(fs', MemberPath(request.fig_zip.archive.members[i], paper_dir))
                        = request.fig_zip.archive.members[i].data ]_vars

\* the name ends in the manuscript or the bibliography suffix
EndsInMdOrBib(n) == EndsWith(n, DOT_MD) \/ EndsWith(n, DOT_BIB)

\* C14: _link_paper_assets returns a link at the workspace root for exactly
\* the entries of the manuscript directory whose name does not end in .md
\* or .bib and is not yet present at the workspace root; each link points
\* at its entry, the staged manuscript and bibliography are not linked, and
\* no entry that existed before is replaced.
C14_ExactlyTheOtherEntries ==
    [][ (pc = "link" /\ pc' = "Setup")
         => /\ links' = { work \o << n >> :
                            n \in { m \in Entries(fs, paper_dir) :
                                      ~EndsInMdOrBib(m) /\ ~Exists(fs, work \o << m >>) } }
            /\ \A l \in links' : l \in DOMAIN fs' /\ fs'[l] = LINK(paper_dir \o << Name(l) >>)
            /\ work \o << PAPER_MD >> \notin links'
            /\ work \o << bib_name >> \notin links'
            /\ \A q \in DOMAIN fs : q \in DOMAIN fs' /\ fs'[q] = fs[q] ]_vars

\* the first asset of the list that the trusted source does not hold
FirstMissing(root) ==
    ASSETS[CHOOSE i \in DOMAIN ASSETS :
              ASSETS[i] \notin root /\ \A j \in 1..(i - 1) : ASSETS[j] \in root]

\* C15: with an asset absent from the trusted source, the request fails
\* with the missing-asset error that names it, and nothing is staged: no
\* upload is in the workspace, nothing is extracted or linked, no step of
\* the pipeline runs.  With every asset present, each is in the workspace
\* at its relative path from the copy on, until the workspace is removed.
C15_MissingAsset ==
    /\ (appRoot # Range(ASSETS) /\ work # << >> /\ pc \notin {"copy_assets", "done", "idle"})
        => /\ pc \in {"except", "exit_with"}
           /\ exc = Raise("FileNotFoundError", "Missing required asset: ", FirstMissing(appRoot))
           /\ FirstMissing(appRoot) \notin appRoot
           /\ Below(fs, paper_dir) = { paper_dir }
           /\ ~Exists(fs, zip_path)
           /\ links = {} /\ trace = << >>
           /\ \A p \in DOMAIN fs : fs[p].data \in {"", "ASSET"}
    /\ (appRoot # Range(ASSETS) /\ work # << >> /\ pc \in {"exit_with", "done"})
        => response = Page("Missing required asset: ", FirstMissing(appRoot), NoText)
    /\ (appRoot = Range(ASSETS) /\ work # << >>
            /\ pc \notin {"copy_assets", "done", "idle"})
        => \A i \in DOMAIN ASSETS :
             /\ work \o PathParts(ASSETS[i]) \in DOMAIN fs
             /\ fs[work \o PathParts(ASSETS[i])] = FILE("ASSET")

\* a request that passed validation ended on the missing-asset page
C15_Witness ==
    /\ pc = "done"
    /\ work # << >>
    /\ appRoot # Range(ASSETS)
    /\ response.kind = "page"
    /\ response.arg \in Range(ASSETS)

\* C17: when the Convert step starts, paperFiles/paper.md is a file with
\* the bytes of the uploaded manuscript, whatever the archive that passed
\* the sanitizer holds.
C17_ManuscriptKept ==
    pc = "Convert"
        => /\ IsFile(fs, work \o << PAPER_FILES, PAPER_MD >>)
           /\ Read(fs, work \o << PAPER_FILES, PAPER_MD >>) = request.md_file.data

\* the names at the workspace root that the handler and the pipeline use
ROOT_NAMES == { IEEE, OUTPUTS, PAPER_FILES, FIGURES_ZIP }

\* C18: no staged link has a name the pipeline uses at the workspace root;
\* while the pipeline runs its output directory is a directory of the
\* workspace itself, and the artifact the last compile pass wrote is still
\* there when the staged links have been removed.
C18_LinksAvoidPipelineNames ==
    /\ \A l \in links : Name(l) \notin ROOT_NAMES
    /\ pc \in (Range(ORDER) \cup {"finally", "check_pdf", "send"})
        => /\ work \o << OUTPUTS >> \in DOMAIN fs
           /\ fs[work \o << OUTPUTS >>].kind = "dir"
    /\ (pc = "check_pdf" /\ PipelinePassed /\ trace[Len(ORDER)].written)
        => IsFile(fs, work \o << OUTPUTS, PAPER_PDF >>)

SEARCH_VARS == {"TEXINPUTS", "BIBINPUTS", "BSTINPUTS"}

\* the value lists these directories first, in this order, and the
\* inherited value after them
DirsFirst(value, dirs, inherited) ==
    IsPrefix(Join([ i \in DOMAIN dirs |-> PathText(dirs[i]) \o << ":" >> ], << >>)
             \o inherited, value)

\* e is the ambient environment with the workspace directories ahead of
\* the inherited value in the three search-path variables
WorkspaceFirst(e) ==
    /\ DOMAIN e = DOMAIN environ \cup SEARCH_VARS
    /\ \A v \in DOMAIN environ \ SEARCH_VARS : e[v] = environ[v]
    /\ DirsFirst(e["TEXINPUTS"], << work \o << IEEE >> >>, Getenv(environ, "TEXINPUTS"))
    /\ DirsFirst(e["BIBINPUTS"], << work \o << PAPER_FILES >>, work \o << OUTPUTS >> >>,
                 Getenv(environ, "BIBINPUTS"))
    /\ DirsFirst(e["BSTINPUTS"],
                 << work \o << IEEE >>, work \o << PAPER_FILES >>, work \o << OUTPUTS >> >>,
                 Getenv(environ, "BSTINPUTS"))

\* C16: every tool invocation of a run is given one and the same map, the
\* ambient environment with the workspace directories first in TEXINPUTS
\* (ieee), BIBINPUTS (paperFiles, outputs) and BSTINPUTS (ieee, paperFiles,
\* outputs); the environment of the process itself stays as it was.
C16_SearchPathEnvironment ==
    /\ environ = AMBIENT
    /\ env # NoEnv => WorkspaceFirst(env)
    /\ pc \in Range(ORDER) => env # NoEnv
    /\ \A i \in DOMAIN trace :
          trace[i].step \in Range(INVOCATIONS) => (trace[i].env = env /\ env # NoEnv)

\* a second request has run all five invocations
C16_Witness ==
    /\ reqNo = 2
    /\ pc = "finally"
    /\ { trace[i].step : i \in DOMAIN trace } \cap Range(INVOCATIONS) = Range(INVOCATIONS)

\* both calls are inside their "with tempfile.TemporaryDirectory" block
Inside(p) == p \notin {"idle", "validate", "enter_with", "done"}

\* the part of the filesystem inside workspace w, by the path from w
Rel(f, w) ==
    [ r \in { SubSeq(p, Len(w) + 1, Len(p)) :
                p \in { q \in DOMAIN f : w # << >> /\ IsPrefix(w, q) } } |-> f[w \o r] ]

\* the filesystem a call running alone has: the temporary directory and
\* its own workspace
Own(f, w) ==
    [ p \in { q \in DOMAIN f : q = << TMP >> \/ (w # << >> /\ IsPrefix(w, q)) } |-> f[p] ]

\* what a step leaves to the call that took it: where it goes on, its
\* workspace, and its locals that depend on the filesystem
Outcome(p, g, w, e, l, r) ==
    [pc |-> p, own |-> Rel(g, w), exc |-> e, links |-> l, response |-> r]

\* the command and the files of the tool invocations
ToolOf(step) == IF step = "Convert" THEN PANDOC ELSE IF step = "Bibtex" THEN BIBTEX ELSE PDFLATEX

FilesOf(step) ==
    IF step = "Convert" THEN << << tex_path, "TEX_CITEP" >> >>
    ELSE IF step = "Bibtex"
    THEN << << out_dir \o << PaperDot(<<"b","b","l">>) >>, "BBL" >>,
            << out_dir \o << PaperDot(<<"b","l","g">>) >>, "BLG" >> >>
    ELSE PdflatexFiles(out_dir, IF step = "Compile1" THEN "PDF1"
                                ELSE IF step = "Compile2" THEN "PDF2" ELSE "PDF3")

\* the outcomes the step the running call is at has on filesystem f
StepOn(f) ==
    CASE pc = "enter_with" ->
            { Outcome("copy_assets",
                      Mkdirs(f, << TMP >>, TemporaryDirectory(f) \o << PAPER_FILES >>),
                      TemporaryDirectory(f), exc, links, response) }
      [] pc = "copy_assets" ->
            { Outcome(IF CopyAssets(f, appRoot, work, 1).exc = NoExc THEN "save_md" ELSE "except",
                      CopyAssets(f, appRoot, work, 1).fs, work,
                      CopyAssets(f, appRoot, work, 1).exc, links, response) }
      [] pc = "save_md" ->
            { Outcome("except", f, work, Raise("OSError", "No space left on device", NoText),
                      links, response) }
            \cup IF WriteOk(f, md_path)
                 THEN { Outcome("save_bib", Write(f, md_path, request.md_file.data), work,
                                exc, links, response) }
                 ELSE {}
      [] pc = "save_bib" ->
            { Outcome("except", f, work, Raise("OSError", "No space left on device", NoText),
                      links, response) }
            \cup IF WriteOk(f, paper_dir \o << BibName(request.bib_file.filename) >>)
                 THEN { Outcome("save_zip",
                                StageBibliography(f, paper_dir, BibName(request.bib_file.filename),
                                                  request.bib_file.data),
                                work, exc, links, response) }
                 ELSE {}
      [] pc = "save_zip" ->
            { Outcome("except", f, work, Raise("OSError", "No space left on device", NoText),
                      links, response) }
            \cup IF WriteOk(f, zip_path)
                 THEN { Outcome("extract", Write(f, zip_path, request.fig_zip.data), work,
                                exc, links, response) }
                 ELSE {}
      [] pc = "extract" ->
            { Outcome(IF SafeExtractZip(f, request.fig_zip.archive, paper_dir).exc = NoExc
                      THEN "link" ELSE "except",
                      SafeExtractZip(f, request.fig_zip.archive, paper_dir).fs, work,
                      SafeExtractZip(f, request.fig_zip.archive, paper_dir).exc,
                      links, response) }
      [] pc = "link" ->
            { Outcome("Setup", SymlinkAll(f, LinkPaperAssets(f, paper_dir, work), paper_dir),
                      work, exc, LinkPaperAssets(f, paper_dir, work), response) }
            \cup UNION { { Outcome("except", SymlinkAll(f, made, paper_dir), work,
                                   SymlinkError(n), links, response) :
                             made \in SUBSET (LinkPaperAssets(f, paper_dir, work)
                                                 \ { work \o << n >> }) } :
                         n \in LinkedNames(f, paper_dir, work) }
      [] pc = "Setup" ->
            IF MkdirsOk(f, work, out_dir)
            THEN { Outcome(StepAfter("Setup"), Mkdirs(f, work, out_dir), work,
                           exc, links, response) }
            ELSE { Outcome(AfterRaise("Setup"), f, work,
                           Raise("FileExistsError", "File exists", NoText), links, response) }
      [] pc \in Range(INVOCATIONS) ->
            { IF o.ok
              THEN Outcome(StepAfter(pc), IF o.written THEN WriteAll(f, FilesOf(pc)) ELSE f, work,
                           exc, links, response)
              ELSE Outcome(AfterRaise(pc), f, work,
                           CalledProcessError(ToolOf(pc), o.stdout, o.stderr), links, response) :
                o \in ToolOutcomes(pc) }
      [] pc = "Fix" ->
            IF IsFile(f, tex_path)
            THEN { Outcome(StepAfter("Fix"), Write(f, tex_path, FixCitations(Read(f, tex_path))),
                           work, exc, links, response) }
            ELSE { Outcome(AfterRaise("Fix"), f, work,
                           Raise("FileNotFoundError", "No such file or directory", NoText),
                           links, response) }
      [] pc = "Clean" ->
            { Outcome(IF UnlinkStale(f, out_dir, 1).exc = NoExc
                      THEN StepAfter("Clean") ELSE AfterRaise("Clean"),
                      UnlinkStale(f, out_dir, 1).fs, work, UnlinkStale(f, out_dir, 1).exc,
                      links, response) }
      [] pc = "StageBib" ->
            IF Copyable(f, paper_dir, out_dir) = GlobBib(f, paper_dir)
            THEN { Outcome(StepAfter("StageBib"),
                           CopyAll(f, GlobBib(f, paper_dir), paper_dir, out_dir), work,
                           exc, links, response) }
            ELSE { Outcome(AfterRaise("StageBib"), CopyAll(f, done, paper_dir, out_dir), work,
                           Raise("IsADirectoryError", "Is a directory", NoText),
                           links, response) :
                     done \in SUBSET Copyable(f, paper_dir, out_dir) }
      [] pc = "finally" ->
            { Outcome(IF exc # NoExc THEN "except" ELSE "check_pdf", UnlinkLinks(f, links), work,
                      exc, links, response) }
      [] pc = "check_pdf" ->
            IF Exists(f, pdf_path)
            THEN { Outcome("send", f, work, exc, links, response) }
            ELSE { Outcome("except", f, work,
                           Raise("FileNotFoundError", "PDF was not generated.", NoText),
                           links, response) }
      [] pc = "send" ->
            IF IsFile(f, pdf_path)
            THEN { Outcome("exit_with", f, work, exc, links,
                           SendFile(Read(f, pdf_path), "application/pdf", PAPER_PDF)) }
            ELSE { Outcome("except", f, work,
                           IF Exists(f, pdf_path)
                           THEN Raise("IsADirectoryError", "Is a directory", NoText)
                           ELSE Raise("FileNotFoundError", "No such file or directory", NoText),
                           links, response) }
      [] pc = "exit_with" ->
            { Outcome("done", Cleanup(f, work), work, exc, links, response) }

\* the steps that use the filesystem
FILE_STEPS ==
    {"enter_with", "copy_assets", "save_md", "save_bib", "save_zip", "extract", "link",
     "finally", "check_pdf", "send", "exit_with"} \cup Range(PIPELINE)

\* the two calls are inside their workspaces and these are two directories
DistinctWorkspaces == (Inside(pc) /\ Inside(other.pc)) => work # other.work

\* a step of the running call changes nothing outside the call's workspace
WritesOwnFiles ==
    other' = other
        => \A p \in DOMAIN fs \cup DOMAIN fs' :
              (work' = << >> \/ ~IsPrefix(work', p))
                  => (p \in DOMAIN fs /\ p \in DOMAIN fs' /\ fs'[p] = fs[p])

\* a step of the running call does what it does on a filesystem that holds
\* nothing but the call's own workspace
StepsAsAlone ==
    (other' = other /\ pc \in FILE_STEPS /\ pc' # pc)
        => Outcome(pc', fs', work', exc', links', response') \in StepOn(Own(fs, work))

\* C13: two requests handled concurrently, in any interleaving of their
\* steps, are never inside the same workspace directory; a step of one
\* request changes no file outside that request's workspace; and every step
\* of a request has an outcome the same step has on a filesystem that holds
\* that request's workspace alone.
C13_RequestsIsolated ==
    /\ []DistinctWorkspaces
    /\ [][WritesOwnFiles]_vars
    /\ [][StepsAsAlone]_vars

\* one call has its artifact while the other is in the middle of a pipeline
\* of its own with its links staged
C13_Witness ==
    /\ pc = "exit_with"
    /\ response.kind = "file"
    /\ other.pc = "Compile2"
    /\ other.links # {}
    /\ work # other.work


=============================================================================
